---- MODULE Spec2Model ----
(***************************************************************************)
(* Model of scripts/scraper.py: one run of scrape_and_manage_data is a     *)
(* sequence of steps (scrape and normalise, archive, update the main CSV,  *)
(* delete the archive, load DuckDB, return) over the files in data/eod.    *)
(*                                                                         *)
(* Dates are day numbers counted from a Monday; an ISO 'YYYY-MM-DD' string *)
(* orders and compares exactly as its day number does.  Decimal numbers    *)
(* are counted in tenths, so 105.0 is 1050 and -5.5 is -55.                *)
(***************************************************************************)
EXTENDS Integers, Sequences, FiniteSets

\* ------------------------------------------------------------------ bounds
MaxDay == 1
MaxRuns == 2

\* ------------------------------------------------------------- calendar
Friday == 4
Saturday == 5

\* date.weekday(): Monday is 0
weekday(d) == d % 7

is_trading_day(d) == weekday(d) \notin {Friday, Saturday}

\* the clock starts on the Thursday before the weekly holiday
FirstDay == Friday - 1
LastDay == FirstDay + MaxDay

\* --------------------------------------------------------------- values
NaN == [k |-> "nan"]
Num(v) == [k |-> "num", v |-> v]
RawNum(v) == [k |-> "num", v |-> v]
RawText == [k |-> "text"]
RawNone == [k |-> "none"]

\* pd.to_numeric(errors='coerce') on one cell
to_numeric(x) == IF x.k = "num" THEN Num(x.v) ELSE NaN

fillna0(x) == IF x.k = "nan" THEN Num(0) ELSE x

\* astype(int) truncates toward zero
astype_int(x) == IF x.v >= 0 THEN x.v \div 10 ELSE -((-x.v) \div 10)

\* ------------------------------------------------------------- symbols
SymbolOrder == <<"AAA", "BBB">>
Symbols == {SymbolOrder[i] : i \in 1..Len(SymbolOrder)}
Rank(s) == CHOOSE i \in 1..Len(SymbolOrder) : SymbolOrder[i] = s

Range(s) == {s[i] : i \in 1..Len(s)}

\* ------------------------------------------------------- company.json
Company(s, ty, st) == [symbol |-> s, instrumentType |-> ty, status |-> st]
ConfigMissing == [k |-> "missing", companies |-> <<>>]
ConfigBadJson == [k |-> "badjson", companies |-> <<>>]
ConfigOf(cs) == [k |-> "ok", companies |-> cs]
Configs ==
    { ConfigMissing, ConfigBadJson,
      ConfigOf(<<Company("AAA", "Equity", "A"), Company("BBB", "Equity", "D")>>),
      ConfigOf(<<Company("AAA", "Mutual Fund", "A")>>) }

RECURSIVE ActiveEquity(_)
ActiveEquity(cs) ==
    IF cs = <<>> THEN <<>>
    ELSE (IF Head(cs).instrumentType = "Equity" /\ Head(cs).status = "A"
          THEN <<Head(cs).symbol>> ELSE <<>>) \o ActiveEquity(Tail(cs))

load_active_equity_symbols(cfg) ==
    IF cfg.k = "ok" THEN ActiveEquity(cfg.companies) ELSE <<>>

\* lines 31 and 34: what the loader prints when it cannot read the file
load_errors(cfg) ==
    IF cfg.k = "missing" THEN {[t |-> "Error: company.json not found.", d |-> 0]}
    ELSE IF cfg.k = "badjson" THEN {[t |-> "Error: Could not decode JSON.", d |-> 0]}
    ELSE {}

\* ------------------------------------------------------- data frames
\* A frame is a sequence of rows; a variable that may be None is a record
\* [some, rows].
NoneDf == [some |-> FALSE, rows |-> <<>>]
Df(rows) == [some |-> TRUE, rows |-> rows]

Less(a, b, by) ==
    IF by = "Symbol"
    THEN Rank(a.Symbol) < Rank(b.Symbol)
    ELSE \/ Rank(a.Symbol) < Rank(b.Symbol)
         \/ (a.Symbol = b.Symbol /\ a.Date > b.Date)

RECURSIVE InsertSorted(_, _, _)
InsertSorted(r, s, by) ==
    IF s = <<>> THEN <<r>>
    ELSE IF Less(r, Head(s), by) THEN <<r>> \o s
    ELSE <<Head(s)>> \o InsertSorted(r, Tail(s), by)

\* DataFrame.sort_values: rows with equal keys keep their order.
RECURSIVE sort_values(_, _)
sort_values(rows, by) ==
    IF rows = <<>> THEN <<>>
    ELSE InsertSorted(rows[Len(rows)],
                      sort_values(SubSeq(rows, 1, Len(rows) - 1), by), by)

\* ------------------------------------------------------ the snapshot
\* asOf is a timestamp; .date() and strftime('%Y-%m-%d') keep its day.
AsOf(d) == [day |-> d, time |-> "15:00:00"]
DatePart(ts) == ts.day

normalize_entry(e, as_of) ==
    [Symbol |-> e.symbol,
     Date   |-> DatePart(as_of),
     Open   |-> to_numeric(e.open),
     High   |-> to_numeric(e.high),
     Low    |-> to_numeric(e.low),
     Close  |-> to_numeric(e.close),
     Volume |-> astype_int(fillna0(to_numeric(e.volume)))]

normalize(prices, as_of) ==
    sort_values([i \in 1..Len(prices) |-> normalize_entry(prices[i], as_of)],
                "Symbol")

is_usable_mut(scraped_date, current_system_date) ==
    /\ scraped_date <= current_system_date
    /\ (is_trading_day(current_system_date) \/ scraped_date <= current_system_date)
is_usable(scraped_date, current_system_date) ==
    /\ scraped_date <= current_system_date
    /\ (is_trading_day(current_system_date) \/ scraped_date < current_system_date)

\* ------------------------------------------------------------ CSV files
EmptyCell == [k |-> "empty"]
Cell(v) == [k |-> "text", v |-> v]

FloatToCell(x) == IF x.k = "nan" THEN EmptyCell ELSE Cell(x.v)
CellToFloat(c) == IF c.k = "empty" THEN NaN ELSE Num(c.v)

\* DataFrame.to_csv(index=False): one line of cells per row
to_csv(rows) ==
    [i \in 1..Len(rows) |->
        [Symbol |-> rows[i].Symbol, Date |-> rows[i].Date,
         Open |-> FloatToCell(rows[i].Open), High |-> FloatToCell(rows[i].High),
         Low |-> FloatToCell(rows[i].Low), Close |-> FloatToCell(rows[i].Close),
         Volume |-> Cell(rows[i].Volume)]]

\* pd.read_csv: empty cells of the numeric columns are NaN
read_csv(lines) ==
    [i \in 1..Len(lines) |->
        [Symbol |-> lines[i].Symbol, Date |-> lines[i].Date,
         Open |-> CellToFloat(lines[i].Open), High |-> CellToFloat(lines[i].High),
         Low |-> CellToFloat(lines[i].Low), Close |-> CellToFloat(lines[i].Close),
         Volume |-> lines[i].Volume.v]]

\* read_csv_auto of DuckDB: the same cells, an empty cell being NULL
read_csv_auto(lines) == read_csv(lines)

NoTable == [exists |-> FALSE, rows |-> <<>>]
Table(rows) == [exists |-> TRUE, rows |-> rows]

NoFile == [exists |-> FALSE, lines |-> <<>>]
File(lines) == [exists |-> TRUE, lines |-> lines]

\* ------------------------------------------------------------ the merge
unique_dates(rows) == {rows[i].Date : i \in 1..Len(rows)}

NotReplaced_mut(r, dates_to_replace) == r.Date \in dates_to_replace
NotReplaced(r, dates_to_replace) == r.Date \notin dates_to_replace

drop_dates_mut(existing, dates_to_replace) == existing
drop_dates(existing, dates_to_replace) ==
    SelectSeq(existing, LAMBDA r : NotReplaced(r, dates_to_replace))

filter_symbols_mut(rows, allowed) == rows
filter_symbols(rows, allowed) ==
    IF allowed # <<>>
    THEN SelectSeq(rows, LAMBDA r : r.Symbol \in Range(allowed))
    ELSE rows

concat_fresh_mut(kept, fresh) == fresh
concat_fresh(kept, fresh) == kept \o fresh

\* a per-symbol merge: only the rows the batch has a (symbol, date) for go
merge_frames_mut(file, fresh) ==
    IF file.exists
    THEN SelectSeq(read_csv(file.lines),
                   LAMBDA r : \A i \in 1..Len(fresh) :
                       ~(fresh[i].Symbol = r.Symbol /\ fresh[i].Date = r.Date))
         \o fresh
    ELSE fresh
\* lines 142-149: the frame before filtering
merge_frames(file, fresh) ==
    IF file.exists
    THEN concat_fresh(drop_dates(read_csv(file.lines), unique_dates(fresh)), fresh)
    ELSE fresh

\* lines 142-155: the frame that is written to the main CSV
updated_frame(file, fresh, allowed) ==
    sort_values(filter_symbols(merge_frames(file, fresh), allowed), "SymbolDate")

\* ------------------------------------------------- inputs of a run
RawEntry(s, o, h, l, c, v) ==
    [symbol |-> s, open |-> o, high |-> h, low |-> l, close |-> c, volume |-> v]

\* what the page may carry for one symbol: a clean entry, one with
\* non-numeric close and volume, one with a negative fractional volume
EntryClean(s) ==
    RawEntry(s, RawNum(1000), RawNum(1100), RawNum(900), RawNum(1050), RawNum(10007))
EntryText(s) ==
    RawEntry(s, RawNum(1000), RawNone, RawNum(900), RawText, RawText)
EntryNegative(s) ==
    RawEntry(s, RawNum(1010), RawNum(1100), RawNum(900), RawNum(1070), RawNum(-55))

\* the price lists a page may carry: one symbol, two symbols out of order,
\* and two entries for one symbol
PriceLists ==
    { <<EntryClean("AAA")>>, <<EntryText("AAA")>>,
      <<EntryNegative("BBB"), EntryClean("AAA")>>,
      <<EntryClean("AAA"), EntryText("AAA")>> }

\* the value of get_nepse_json_with_playwright
FetchNone == [k |-> "none", prices |-> <<>>, has_asOf |-> FALSE, asOf |-> AsOf(0)]
FetchNoStockLive == [k |-> "nostock", prices |-> <<>>, has_asOf |-> FALSE, asOf |-> AsOf(0)]
FetchLive(prices, has, ts) == [k |-> "live", prices |-> prices, has_asOf |-> has, asOf |-> ts]

\* the snapshot is dated yesterday, today or tomorrow
FetchResults(current_system_date) ==
    {FetchNone, FetchNoStockLive}
    \cup {FetchLive(<<>>, TRUE, AsOf(current_system_date))}
    \cup {FetchLive(ps, FALSE, AsOf(0)) : ps \in PriceLists}
    \cup {FetchLive(ps, TRUE, AsOf(d)) :
             ps \in PriceLists, d \in (current_system_date - 1)..(current_system_date + 1)}

\* line 91
no_prices(x) == x.k # "live" \/ x.prices = <<>>

\* ------------------------------------------------------------ messages
Msg(t, d) == [t |-> t, d |-> d]
MsgNoFresh == Msg("No fresh live data returned from source or prices not found.", 0)
MsgNoAsOf == Msg("Scraped data missing 'asOf' timestamp. Cannot determine date.", 0)
MsgScraped(d) == Msg("Scraped EOD data for {date}.", d)
MsgOlder == Msg(" (This is older than today, likely backfilling a missed day or current EOD on non-trading day).", 0)
MsgFuture(d) == Msg("Scraped data date {date} is in the future or invalid. Skipping CSV update from this scrape.", d)
MsgDuckFailed == Msg("DuckDB database update failed from CSV.", 0)
MsgDuckSkipped == Msg("Main CSV is empty or not loaded. Skipping DuckDB update.", 0)
MsgNoSource == Msg("No valid data source (fresh scrape or existing CSV) for DuckDB.", 0)
MsgRows(n) == Msg("{n} rows", n)
MsgDeleteFailed == Msg("Error deleting archive file", 0)
MsgArchived == Msg("Archived scrape data", 0)

\* message += warning
append_warning_mut(m, w) == <<w>>
append_warning(m, w) == m \o <<w>>

\* ------------------------------------------------------------- state
VARIABLES
    current_system_date,  \* datetime.now().date() of the latest run
    main_csv,             \* the file at MAIN_CSV_PATH
    archive_files,        \* the dates d with a file nepse_<d>.csv in the folder
    duckdb_table,         \* the table eod_data of nepse.duckdb
    pc,                   \* where the run stands
    data,                 \* the fetched snapshot; not read after line 130, dropped there
    message,              \* the status message, a sequence of its parts
    stdout,               \* what this run printed
    df_fresh_eod,         \* None or the normalized batch
    allowed_symbols,      \* the allow-list read by this run
    df_main_updated_csv,  \* None or the frame of the main CSV after the update
    returned,             \* the run's return value, once it has returned
    csv_before,           \* main_csv when the run started
    runs                  \* runs started so far

vars == <<current_system_date, main_csv, archive_files, duckdb_table, pc, data,
          message, stdout, df_fresh_eod, allowed_symbols, df_main_updated_csv,
          returned, csv_before, runs>>

NotReturned == [done |-> FALSE, df |-> NoneDf, message |-> <<>>]
Returned(df, m) == [done |-> TRUE, df |-> df, message |-> m]

\* a record an earlier run of the program left: two days of AAA, one of BBB
SeedRows ==
    sort_values(
        normalize(<<RawEntry("AAA", RawNum(980), RawNum(990), RawNum(970), RawNum(985), RawNum(5000))>>,
                  AsOf(FirstDay - 1))
        \o normalize(<<RawEntry("AAA", RawNum(990), RawNum(1010), RawNum(980), RawNum(1000), RawNum(7000)),
                       RawEntry("BBB", RawNum(500), RawNum(510), RawNum(490), RawNum(505), RawNum(300))>>,
                     AsOf(FirstDay)),
        "SymbolDate")

Init ==
    /\ current_system_date = FirstDay
    /\ \/ main_csv = NoFile /\ duckdb_table = NoTable
       \/ main_csv = File(<<>>) /\ duckdb_table = NoTable
       \/ /\ main_csv = File(to_csv(SeedRows))
          /\ duckdb_table = Table(read_csv_auto(to_csv(SeedRows)))
    /\ archive_files = {}
    /\ pc = "idle"
    /\ data = FetchNone
    /\ message = <<>>
    /\ stdout = {}
    /\ df_fresh_eod = NoneDf
    /\ allowed_symbols = <<>>
    /\ df_main_updated_csv = NoneDf
    /\ returned = NotReturned
    /\ csv_before = main_csv
    /\ runs = 0

\* ------------------------------------------------------------- a run
has_fresh == df_fresh_eod.some /\ df_fresh_eod.rows # <<>>
archive_date == df_fresh_eod.rows[1].Date

\* lines 82-130: fetch, normalise, decide whether the snapshot is usable
Scrape(today, x) ==
    /\ pc \in {"idle", "done", "raised"}
    /\ runs < MaxRuns
    /\ runs' = runs + 1
    /\ current_system_date' = today
    /\ data' = x
    /\ csv_before' = main_csv
    /\ allowed_symbols' = <<>>
    /\ df_main_updated_csv' = NoneDf
    /\ returned' = NotReturned
    /\ IF no_prices(x)
       THEN /\ message' = <<MsgNoFresh>>
            /\ stdout' = {MsgNoFresh}
            /\ df_fresh_eod' = NoneDf
       ELSE IF ~x.has_asOf
       THEN /\ message' = <<MsgNoAsOf>>
            /\ stdout' = {MsgNoAsOf}
            /\ df_fresh_eod' = NoneDf
       ELSE LET scraped_date == DatePart(x.asOf) IN
            IF is_usable(scraped_date, today)
            THEN /\ message' = <<MsgScraped(scraped_date)>>
                        \o (IF scraped_date < today THEN <<MsgOlder>> ELSE <<>>)
                 /\ stdout' = {}
                 /\ df_fresh_eod' = Df(normalize(x.prices, x.asOf))
            ELSE /\ message' = <<MsgFuture(scraped_date)>>
                 /\ stdout' = {MsgFuture(scraped_date)}
                 /\ df_fresh_eod' = NoneDf
    /\ pc' = "manage"
    /\ UNCHANGED <<main_csv, archive_files, duckdb_table>>

\* lines 135-139: the fresh batch is written to nepse_<date>.csv
ArchiveScrape ==
    /\ pc = "manage"
    /\ data' = FetchNone
    /\ has_fresh
    /\ archive_files' = archive_files \cup {archive_date}
    /\ stdout' = stdout \cup {MsgArchived}
    /\ pc' = "update"
    /\ UNCHANGED <<current_system_date, main_csv, duckdb_table, message,
                   df_fresh_eod, allowed_symbols, df_main_updated_csv, returned,
                   csv_before, runs>>

\* line 138 raises: nothing catches it
ArchiveScrapeFails ==
    /\ pc = "manage"
    /\ data' = FetchNone
    /\ has_fresh
    /\ pc' = "raised"
    /\ UNCHANGED <<current_system_date, main_csv, archive_files, duckdb_table,
                   message, stdout, df_fresh_eod, allowed_symbols, df_main_updated_csv,
                   returned, csv_before, runs>>

\* lines 142-158: merge, filter, sort, overwrite the main CSV
UpdateMainCsv(cfg) ==
    /\ pc = "update"
    /\ LET allowed == load_active_equity_symbols(cfg)
           frame == updated_frame(main_csv, df_fresh_eod.rows, allowed)
       IN /\ allowed_symbols' = allowed
          /\ df_main_updated_csv' = Df(frame)
          /\ main_csv' = File(to_csv(frame))
          /\ stdout' = stdout \cup load_errors(cfg) \cup {MsgRows(Len(frame))}
    /\ pc' = "cleanup"
    /\ UNCHANGED <<current_system_date, archive_files, duckdb_table, data, message,
                   df_fresh_eod, returned, csv_before, runs>>

\* line 157 raises: the main CSV is not replaced
UpdateMainCsvFails(cfg) ==
    /\ pc = "update"
    /\ LET allowed == load_active_equity_symbols(cfg)
       IN /\ allowed_symbols' = allowed
          /\ df_main_updated_csv' =
                Df(updated_frame(main_csv, df_fresh_eod.rows, allowed))
    /\ stdout' = stdout \cup load_errors(cfg)
    /\ pc' = "raised"
    /\ UNCHANGED <<current_system_date, main_csv, archive_files, duckdb_table, data,
                   message, df_fresh_eod, returned, csv_before, runs>>

\* lines 160-164
DeleteArchive ==
    /\ pc = "cleanup"
    /\ archive_files' = archive_files \ {archive_date}
    /\ pc' = "duckdb"
    /\ UNCHANGED <<current_system_date, main_csv, duckdb_table, data, message, stdout,
                   df_fresh_eod, allowed_symbols, df_main_updated_csv, returned,
                   csv_before, runs>>

\* lines 165-166: os.remove raises, the exception is caught and printed
DeleteArchiveFails ==
    /\ pc = "cleanup"
    /\ stdout' = stdout \cup {MsgDeleteFailed}
    /\ pc' = "duckdb"
    /\ UNCHANGED <<current_system_date, main_csv, archive_files, duckdb_table, data,
                   message, df_fresh_eod, allowed_symbols, df_main_updated_csv,
                   returned, csv_before, runs>>

\* lines 168-171: no usable batch, the existing CSV is read
LoadExisting ==
    /\ pc = "manage"
    /\ data' = FetchNone
    /\ ~has_fresh
    /\ main_csv.exists
    /\ df_main_updated_csv' = Df(read_csv(main_csv.lines))
    /\ stdout' = stdout \cup {MsgRows(Len(main_csv.lines))}
    /\ pc' = "duckdb"
    /\ UNCHANGED <<current_system_date, main_csv, archive_files, duckdb_table,
                   message, df_fresh_eod, allowed_symbols, returned, csv_before, runs>>

\* lines 172-174: no usable batch and no CSV
NoDataSource ==
    /\ pc = "manage"
    /\ data' = FetchNone
    /\ ~has_fresh
    /\ ~main_csv.exists
    /\ returned' = Returned(NoneDf, <<MsgNoSource>>)
    /\ pc' = "done"
    /\ UNCHANGED <<current_system_date, main_csv, archive_files, duckdb_table,
                   message, stdout, df_fresh_eod, allowed_symbols, df_main_updated_csv,
                   csv_before, runs>>

frame_loaded == df_main_updated_csv.some /\ df_main_updated_csv.rows # <<>>

\* lines 179-180, 57-75, 190: the table is replaced by the CSV's contents
UpdateDuckDb ==
    /\ pc = "duckdb"
    /\ frame_loaded
    /\ duckdb_table' = Table(read_csv_auto(main_csv.lines))
    /\ returned' = Returned(df_main_updated_csv, message)
    /\ pc' = "done"
    /\ UNCHANGED <<current_system_date, main_csv, archive_files, data, message, stdout,
                   df_fresh_eod, allowed_symbols, df_main_updated_csv, csv_before, runs>>

\* lines 76-78, 181-183, 190: the load fails, the table is as it was
UpdateDuckDbFails ==
    /\ pc = "duckdb"
    /\ frame_loaded
    /\ message' = append_warning(message, MsgDuckFailed)
    /\ stdout' = stdout \cup {MsgDuckFailed}
    /\ returned' = Returned(df_main_updated_csv, message')
    /\ pc' = "done"
    /\ UNCHANGED <<current_system_date, main_csv, archive_files, duckdb_table, data,
                   df_fresh_eod, allowed_symbols, df_main_updated_csv, csv_before, runs>>

\* lines 186-190: an empty frame is not loaded
SkipDuckDb ==
    /\ pc = "duckdb"
    /\ ~frame_loaded
    /\ message' = append_warning(message, MsgDuckSkipped)
    /\ stdout' = stdout \cup {MsgDuckSkipped}
    /\ returned' = Returned(df_main_updated_csv, message')
    /\ pc' = "done"
    /\ UNCHANGED <<current_system_date, main_csv, archive_files, duckdb_table, data,
                   df_fresh_eod, allowed_symbols, df_main_updated_csv, csv_before, runs>>

Next ==
    \/ \E today \in current_system_date..LastDay :
          \E x \in FetchResults(today) : Scrape(today, x)
    \/ ArchiveScrape
    \/ ArchiveScrapeFails
    \/ \E cfg \in Configs : UpdateMainCsv(cfg)
    \/ \E cfg \in Configs : UpdateMainCsvFails(cfg)
    \/ DeleteArchive
    \/ DeleteArchiveFails
    \/ LoadExisting
    \/ NoDataSource
    \/ UpdateDuckDb
    \/ UpdateDuckDbFails
    \/ SkipDuckDb

Spec == Init /\ [][Next]_vars

\* ------------------------------------------------------------ claims
\* the run has overwritten the main CSV with a merge of its batch
Merged == has_fresh /\ pc \in {"cleanup", "duckdb", "done"}

batch_date == df_fresh_eod.rows[1].Date
batch_symbols == {df_fresh_eod.rows[i].Symbol : i \in 1..Len(df_fresh_eod.rows)}

KeysUnique(rows) ==
    \A i, j \in 1..Len(rows) :
        (rows[i].Symbol = rows[j].Symbol /\ rows[i].Date = rows[j].Date) => i = j

SymbolsUnique(rows) ==
    \A i, j \in 1..Len(rows) : rows[i].Symbol = rows[j].Symbol => i = j

OnDate(rows, d) == SelectSeq(rows, LAMBDA r : r.Date = d)
OffDate(rows, d) == SelectSeq(rows, LAMBDA r : r.Date # d)
Admitted(r) == allowed_symbols = <<>> \/ r.Symbol \in Range(allowed_symbols)

\* C1: a record with unique (symbol, date) keys stays so through every run
\* whose snapshot has at most one entry per symbol: the starting records have
\* unique keys, and a run that finds unique keys leaves unique keys.
C1_KeysStayUnique ==
    /\ runs = 0 => KeysUnique(main_csv.lines)
    /\ ( /\ KeysUnique(csv_before.lines)
         /\ (has_fresh => SymbolsUnique(df_fresh_eod.rows)) )
       => KeysUnique(main_csv.lines)

\* the second run replaces a date the record already held, next to other dates
C1_Witness ==
    /\ Merged /\ pc = "done" /\ runs = 2
    /\ SymbolsUnique(df_fresh_eod.rows)
    /\ KeysUnique(csv_before.lines)
    /\ OnDate(csv_before.lines, batch_date) # <<>>
    /\ OffDate(csv_before.lines, batch_date) # <<>>
    /\ Len(main_csv.lines) >= 2

\* C2: a snapshot with prices and an asOf date D is taken for the merge exactly
\* when D <= today and (today is neither Friday nor Saturday, or D < today);
\* a rejected snapshot leaves the main CSV as it was and the run returns the
\* record read from it (none when there is no file).
Rejected ==
    /\ pc \in {"manage", "duckdb", "done"}
    /\ message # <<>>
    /\ message[1].t = MsgFuture(0).t

C2_UsableIffInWindow ==
    /\ (pc = "manage" /\ data.k = "live" /\ data.prices # <<>> /\ data.has_asOf)
       => LET D == DatePart(data.asOf)
              T == current_system_date
          IN has_fresh <=>
                (D <= T /\ ((weekday(T) # Friday /\ weekday(T) # Saturday) \/ D < T))
    /\ Rejected =>
          /\ ~has_fresh
          /\ main_csv = csv_before
          /\ returned.done =>
                returned.df = (IF csv_before.exists
                               THEN Df(read_csv(csv_before.lines)) ELSE NoneDf)

\* on a Friday a snapshot dated that Friday is rejected and the run returns
\* the existing record
C2_Witness ==
    /\ Rejected /\ pc = "done"
    /\ weekday(current_system_date) = Friday
    /\ message[1].d = current_system_date
    /\ csv_before.exists /\ csv_before.lines # <<>>
    /\ returned.df.some

\* C3 as stated: after a merge of a snapshot dated today, with one entry per
\* symbol, the record has exactly one row for today per snapshot symbol and
\* today's rows are the snapshot's rows.
C3_Original ==
    (Merged /\ batch_date = current_system_date /\ SymbolsUnique(df_fresh_eod.rows))
    => /\ \A s \in batch_symbols :
             Cardinality({i \in 1..Len(main_csv.lines) :
                 main_csv.lines[i].Symbol = s
                 /\ main_csv.lines[i].Date = current_system_date}) = 1
       /\ OnDate(main_csv.lines, current_system_date) = to_csv(df_fresh_eod.rows)

\* C3 amended: after such a merge today's rows of the record are exactly the
\* snapshot's rows whose symbol the allow-list admits (all of them when the
\* allow-list is empty), one per admitted symbol; no prior row for today is left.
C3_TodayRowsAreAdmittedBatch ==
    (Merged /\ batch_date = current_system_date /\ SymbolsUnique(df_fresh_eod.rows))
    => /\ OnDate(main_csv.lines, current_system_date)
             = to_csv(SelectSeq(df_fresh_eod.rows, Admitted))
       /\ \A s \in batch_symbols :
             Cardinality({i \in 1..Len(main_csv.lines) :
                 main_csv.lines[i].Symbol = s
                 /\ main_csv.lines[i].Date = current_system_date})
             = (IF allowed_symbols = <<>> \/ s \in Range(allowed_symbols) THEN 1 ELSE 0)

\* the record held rows for today of a symbol the snapshot lacks, and the
\* allow-list admits every symbol
C3_Witness ==
    /\ Merged /\ pc = "done"
    /\ batch_date = current_system_date
    /\ SymbolsUnique(df_fresh_eod.rows)
    /\ allowed_symbols = <<>>
    /\ \E i \in 1..Len(csv_before.lines) :
          /\ csv_before.lines[i].Date = current_system_date
          /\ csv_before.lines[i].Symbol \notin batch_symbols

\* C4: with no allow-list in effect a merge replaces the batch's date and
\* nothing else: the record's rows for the batch's date are the batch, and the
\* rows of every other date are those the record held, unchanged.
C4_WholeDateReplaced ==
    (Merged /\ allowed_symbols = <<>>)
    => /\ OnDate(main_csv.lines, batch_date) = to_csv(df_fresh_eod.rows)
       /\ OffDate(main_csv.lines, batch_date) = OffDate(csv_before.lines, batch_date)

\* the example: AAA on two dates (and BBB on the later one), a batch with AAA
\* alone for the later date at close 105.0
C4_Witness ==
    /\ Merged /\ pc = "done" /\ allowed_symbols = <<>>
    /\ csv_before = File(to_csv(SeedRows))
    /\ batch_date = FirstDay
    /\ main_csv.lines =
          to_csv(<<[Symbol |-> "AAA", Date |-> FirstDay, Open |-> Num(1000),
                    High |-> Num(1100), Low |-> Num(900), Close |-> Num(1050),
                    Volume |-> 1000],
                   SeedRows[2]>>)
    /\ SeedRows[2].Symbol = "AAA" /\ SeedRows[2].Date = FirstDay - 1

\* C5: after a merge with a non-empty allow-list every row of the record has
\* an allowed symbol; with an empty allow-list, which is also what an
\* unreadable company.json gives, no row is dropped.
C5_AllowListFilter ==
    /\ (Merged /\ allowed_symbols # <<>>)
       => \A i \in 1..Len(main_csv.lines) :
             main_csv.lines[i].Symbol \in Range(allowed_symbols)
    /\ (Merged /\ allowed_symbols = <<>>)
       => Len(main_csv.lines)
             = Len(OffDate(csv_before.lines, batch_date)) + Len(df_fresh_eod.rows)
    /\ (pc \in {"cleanup", "duckdb", "done", "raised"}
        /\ \E e \in stdout : e.t \in {"Error: company.json not found.",
                                        "Error: Could not decode JSON."})
       => allowed_symbols = <<>>

\* a symbol the allow-list lacks was in the record before and in the batch
C5_Witness ==
    /\ Merged /\ pc = "done"
    /\ allowed_symbols # <<>>
    /\ \E i \in 1..Len(csv_before.lines) :
          /\ csv_before.lines[i].Date # batch_date
          /\ csv_before.lines[i].Symbol \notin Range(allowed_symbols)
    /\ \E s \in batch_symbols : s \notin Range(allowed_symbols)
    /\ main_csv.lines # <<>>

\* C6: merging the same batch under the same allow-list into the record a
\* merge has just written writes that same record again.
C6_MergeIdempotent ==
    Merged =>
        to_csv(updated_frame(main_csv, df_fresh_eod.rows, allowed_symbols))
            = main_csv.lines

\* the first merge changed the record and dropped rows of it
C6_Witness ==
    /\ Merged /\ pc = "done"
    /\ csv_before.exists
    /\ main_csv # csv_before
    /\ OnDate(csv_before.lines, batch_date) # <<>>
    /\ OffDate(main_csv.lines, batch_date) # <<>>
    /\ allowed_symbols # <<>>

\* C7 as stated: a run that returns a record and reports no sync failure
\* leaves the table equal to the main CSV, also when the record is empty.
C7_TableEqualsCsv ==
    (pc = "done" /\ returned.df.some /\ MsgDuckFailed \notin Range(returned.message))
    => duckdb_table = Table(read_csv_auto(main_csv.lines))

\* C8 as stated: a failed write of the archive file does not abort the run,
\* and the archive file is gone once the main CSV is written (unless the
\* removal itself failed).
C8_StagingBestEffort ==
    /\ ~(pc = "raised" /\ MsgArchived \notin stdout)
    /\ (Merged /\ pc \in {"duckdb", "done"} /\ MsgDeleteFailed \notin stdout)
       => archive_date \notin archive_files

IsRowCount(m) == m.t = MsgRows(0).t
IsListedWarning(m) ==
    \/ m \in {MsgNoFresh, MsgNoAsOf, MsgDuckFailed}
    \/ m.t = MsgFuture(0).t

\* C9 as stated: on every exit path the returned message holds every warning
\* of the run and the final row count; a sync failure still returns the record.
C9_Original ==
    returned.done =>
        /\ \A w \in stdout : IsListedWarning(w) => w \in Range(returned.message)
        /\ \E i \in 1..Len(returned.message) : IsRowCount(returned.message[i])
        /\ MsgDuckFailed \in stdout => returned.df.some

\* C9 amended: a message returned with a record holds every warning of the
\* run (missing snapshot, missing timestamp, stale or future date, sync
\* failure) and never a row count; when there is no usable data the run
\* returns no record and only the "No valid data source" error, the fetch
\* warning being dropped; a sync failure still returns the record.
C9_MessageWithRecord ==
    returned.done =>
        /\ returned.df.some =>
              /\ \A w \in stdout : IsListedWarning(w) => w \in Range(returned.message)
              /\ returned.message = message
        /\ ~returned.df.some =>
              /\ returned.message = <<MsgNoSource>>
              /\ \E w \in stdout : IsListedWarning(w) /\ w \notin Range(returned.message)
        /\ \A i \in 1..Len(returned.message) : ~IsRowCount(returned.message[i])
        /\ returned.df.some => \E w \in stdout : IsRowCount(w)
        /\ MsgDuckFailed \in stdout => returned.df.some

\* a rejected date and a failed sync are both in the returned message
C9_Witness ==
    /\ returned.done /\ returned.df.some
    /\ Len(returned.message) = 2
    /\ returned.message[1].t = MsgFuture(0).t
    /\ returned.message[2] = MsgDuckFailed

\* C10 as stated: every entry's stored volume is a non-negative integer, 0
\* when the raw volume is not a number, and a non-numeric price is null.
C10_VolumeNonNegative ==
    (pc = "manage" /\ has_fresh)
    => /\ Len(df_fresh_eod.rows) = Len(data.prices)
       /\ \A i \in 1..Len(data.prices) :
             \E j \in 1..Len(df_fresh_eod.rows) :
                LET e == data.prices[i]
                    r == df_fresh_eod.rows[j]
                IN /\ r.Symbol = e.symbol
                   /\ r.Volume >= 0
                   /\ (e.volume.k # "num" => r.Volume = 0)
                   /\ (e.close.k # "num" => r.Close = NaN)
                   /\ (e.high.k # "num" => r.High = NaN)

====
